---- MODULE Spec2Model ----
(***************************************************************************)
(* A model of fetch_coordinates.py: the URL coordinate extractor, the      *)
(* coordinate validator, the two-step resolution strategy                  *)
(* (get_coordinates) and the batch driver (main).                          *)
(*                                                                         *)
(* Strings are sequences of one-character strings, so that the regular     *)
(* expressions, the substring tests and the slicing of the source are      *)
(* computed character by character.  Python's None is the value None       *)
(* below, which is no string of the program.                               *)
(***************************************************************************)
EXTENDS Integers, Sequences, FiniteSets, TLC

\* ------------------------------------------------------------- strings --

None == <<"None">>

\* Python truthiness of an optional string: None and "" are falsy.
Truthy(v) == v # None /\ v # <<>>

Digits == {"0", "1", "2", "3", "4", "5", "6", "7", "8", "9"}

\* lit occurs in s at position i.
HasAt(s, i, lit) ==
    /\ i >= 1
    /\ i + Len(lit) - 1 <= Len(s)
    /\ SubSeq(s, i, i + Len(lit) - 1) = lit

\* Python's `sub in s`.
Contains(s, sub) == \E i \in 1..(Len(s) + 1) : HasAt(s, i, sub)

\* Python's s.endswith(suffix).
EndsWith(s, suffix) == HasAt(s, Len(s) - Len(suffix) + 1, suffix)

Min(S) == CHOOSE x \in S : \A y \in S : x <= y

\* The first index >= i of s that holds no digit (Len(s) + 1 if none): \d*
RECURSIVE DigitRunEnd(_, _)
DigitRunEnd(s, i) ==
    IF i <= Len(s) /\ s[i] \in Digits THEN DigitRunEnd(s, i + 1) ELSE i

\* The regular expression -?\d+\.?\d* matched greedily at position i of s:
\* the index after the match, 0 when there is no match.  Every use in the
\* program is followed by the end of the pattern, by "!" or by ",", none of
\* which a shorter match could be followed by, so the greedy match is the
\* only one the regex engine can return.
NumEnd(s, i) ==
    LET a == IF i <= Len(s) /\ s[i] = "-" THEN i + 1 ELSE i
        b == DigitRunEnd(s, a)
        c == IF b <= Len(s) /\ s[b] = "." THEN b + 1 ELSE b
    IN  IF b = a THEN 0 ELSE DigitRunEnd(s, c)

\* re.search(lit(-?\d+\.?\d*), s): the group of the leftmost match, or None.
SearchOne(s, lit) ==
    LET M == {i \in 1..Len(s) : HasAt(s, i, lit) /\ NumEnd(s, i + Len(lit)) # 0}
    IN  IF M = {} THEN None
        ELSE LET i == Min(M) IN SubSeq(s, i + Len(lit), NumEnd(s, i + Len(lit)) - 1)

\* lit (NUM) sep (NUM) matches s at position i.
PairAt(s, i, lit, sep) ==
    /\ HasAt(s, i, lit)
    /\ NumEnd(s, i + Len(lit)) # 0
    /\ HasAt(s, NumEnd(s, i + Len(lit)), sep)
    /\ NumEnd(s, NumEnd(s, i + Len(lit)) + Len(sep)) # 0

\* The two groups of lit (NUM) sep (NUM) matched at position i.
PairGroups(s, i, lit, sep) ==
    LET e1 == NumEnd(s, i + Len(lit))
        e2 == NumEnd(s, e1 + Len(sep))
    IN  <<SubSeq(s, i + Len(lit), e1 - 1), SubSeq(s, e1 + Len(sep), e2 - 1)>>

\* re.search over a set of literal prefixes of which at most one can start
\* at any position: the groups of the leftmost match, or None.
SearchPair(s, lits, sep) ==
    LET M == {i \in 1..Len(s) : \E lit \in lits : PairAt(s, i, lit, sep)}
    IN  IF M = {} THEN None
        ELSE LET i == Min(M)
                 lit == CHOOSE l \in lits : PairAt(s, i, l, sep)
             IN  PairGroups(s, i, lit, sep)

\* ----------------------------------------- extract_coordinates_from_url --

Lit3d == <<"!", "3", "d">>
Lit4d == <<"!", "4", "d">>
Lit2d == <<"!", "2", "d">>
LitAt == <<"@">>
LitComma == <<",">>
\* [?&](?:q|ll)=
LitQuery == {<<"?", "q", "=">>, <<"&", "q", "=">>,
             <<"?", "l", "l", "=">>, <<"&", "l", "l", "=">>}

SrcPin == <<"pin">>
SrcQuery == <<"query">>
SrcViewport == <<"viewport">>

NotFound == <<None, None, None>>

\* The viewport pattern is tried first.
extract_coordinates_from_url_viewport_first(url) ==
    LET p1 == SearchPair(url, {Lit3d}, Lit4d)
        p4 == SearchPair(url, {LitAt}, LitComma)
    IN  IF p4 # None THEN <<p4[1], p4[2], SrcViewport>>
        ELSE IF p1 # None THEN <<p1[1], p1[2], SrcPin>>
        ELSE NotFound

\* The query parameter is tried after the viewport marker.
extract_coordinates_from_url_query_last(url) ==
    LET p1 == SearchPair(url, {Lit3d}, Lit4d)
        match_lat == SearchOne(url, Lit3d)
        match_long == SearchOne(url, Lit2d)
        p3 == SearchPair(url, LitQuery, LitComma)
        p4 == SearchPair(url, {LitAt}, LitComma)
    IN  IF p1 # None THEN <<p1[1], p1[2], SrcPin>>
        ELSE IF match_lat # None /\ match_long # None
                THEN <<match_lat, match_long, SrcPin>>
        ELSE IF p4 # None THEN <<p4[1], p4[2], SrcViewport>>
        ELSE IF p3 # None THEN <<p3[1], p3[2], SrcQuery>>
        ELSE NotFound

extract_coordinates_from_url(url) ==
    LET p1 == SearchPair(url, {Lit3d}, Lit4d)
        match_lat == SearchOne(url, Lit3d)
        match_long == SearchOne(url, Lit2d)
        p3 == SearchPair(url, LitQuery, LitComma)
        p4 == SearchPair(url, {LitAt}, LitComma)
    IN  IF p1 # None THEN <<p1[1], p1[2], SrcPin>>
        ELSE IF match_lat # None /\ match_long # None
                THEN <<match_lat, match_long, SrcPin>>
        ELSE IF p3 # None THEN <<p3[1], p3[2], SrcQuery>>
        ELSE IF p4 # None THEN <<p4[1], p4[2], SrcViewport>>
        ELSE NotFound

\* ------------------------------------------------- validate_coordinates --

DigitVal(c) ==
    CASE c = "0" -> 0 [] c = "1" -> 1 [] c = "2" -> 2 [] c = "3" -> 3
      [] c = "4" -> 4 [] c = "5" -> 5 [] c = "6" -> 6 [] c = "7" -> 7
      [] c = "8" -> 8 [] c = "9" -> 9

RECURSIVE Pow10(_)
Pow10(n) == IF n = 0 THEN 1 ELSE 10 * Pow10(n - 1)

RECURSIVE Pow2(_)
Pow2(n) == IF n = 0 THEN 1 ELSE 2 * Pow2(n - 1)

\* The number a sequence of digits denotes.
RECURSIVE DigitsValue(_)
DigitsValue(ds) ==
    IF ds = <<>> THEN 0
    ELSE 10 * DigitsValue(SubSeq(ds, 1, Len(ds) - 1)) + DigitVal(ds[Len(ds)])

IsDigit(c) == c \in Digits
IsDot(c) == c = "."

ValueError == [error |-> "ValueError"]
TypeError == [error |-> "TypeError"]

\* float(v) for the strings of the model's alphabet: an optional sign, then
\* "nan", "inf", or digits with at most one "." and at least one digit (no
\* exponent, no blanks, no underscores).  A finite value is the exact
\* decimal (-1)^neg * mant / 10^scale; for the few digits of the model's
\* inputs the comparisons with 0, 90 and 180 are those of the binary float.
\* float(None) raises TypeError, any other string ValueError.
float(v) ==
    IF v = None THEN TypeError
    ELSE LET signed == Len(v) >= 1 /\ v[1] \in {"-", "+"}
             body == IF signed THEN SubSeq(v, 2, Len(v)) ELSE v
             neg == signed /\ v[1] = "-"
             digs == SelectSeq(body, IsDigit)
             dots == SelectSeq(body, IsDot)
             dot == IF dots = <<>> THEN Len(body) + 1
                    ELSE Min({i \in 1..Len(body) : body[i] = "."})
         IN  IF body = <<"n", "a", "n">>
             THEN [kind |-> "nan", neg |-> neg, mant |-> 0, scale |-> 0]
             ELSE IF body = <<"i", "n", "f">>
             THEN [kind |-> "inf", neg |-> neg, mant |-> 0, scale |-> 0]
             ELSE IF \/ digs = <<>>
                     \/ Len(dots) > 1
                     \/ Len(digs) + Len(dots) # Len(body)
             THEN ValueError
             ELSE [kind |-> "finite", neg |-> neg,
                   mant |-> DigitsValue(digs),
                   scale |-> IF dots = <<>> THEN 0 ELSE Len(body) - dot]

IsError(f) == "error" \in DOMAIN f

\* f < -n and f > n for a float f and a natural number n; f == 0.  Every
\* comparison with a NaN is false.
Below(f, n) ==
    \/ f.kind = "inf" /\ f.neg
    \/ f.kind = "finite" /\ f.neg /\ f.mant > n * Pow10(f.scale)
Above(f, n) ==
    \/ f.kind = "inf" /\ ~f.neg
    \/ f.kind = "finite" /\ ~f.neg /\ f.mant > n * Pow10(f.scale)
IsZero(f) == f.kind = "finite" /\ f.mant = 0

\* Returns <<is_valid, warnings>>; a warning is named by its kind.
validate_coordinates(lat, long) ==
    LET lat_float == float(lat)
        long_float == float(long)
    IN  IF IsError(lat_float) \/ IsError(long_float)
        THEN <<FALSE, <<"format">>>>
        ELSE LET w1 == IF Below(lat_float, 90) \/ Above(lat_float, 90)
                       THEN <<"lat_range">> ELSE <<>>
                 w2 == IF Below(long_float, 180) \/ Above(long_float, 180)
                       THEN <<"long_range">> ELSE <<>>
                 w3 == IF IsZero(lat_float) /\ IsZero(long_float)
                       THEN <<"zero">> ELSE <<>>
             IN  <<w1 \o w2 \o w3 = <<>>, w1 \o w2 \o w3>>

\* validate_coordinates has not been called.
NoVerdict == <<TRUE, <<"not called">>>>

\* ----------------------------------------------------------- the inputs --

\* Bounds of the model.
MaxEntities == 6
MaxMixed == 3
MaxRetries == 2

\* "X", a name; "NY", a context.
NameX == <<"X">>
ContextNY == <<"N", "Y">>
\* item.get('name', 'Unknown')
Unknown == <<"U", "n", "k", "n", "o", "w", "n">>

\* A maps URL carrying the pin 10.0, 20.0; the same with a trailing period;
\* a URL of five characters.
PinUrl == <<"g", ".", "c", "o", "/", "!", "3", "d", "1", "0", ".", "0",
            "!", "4", "d", "2", "0", ".", "0">>
DotUrl == <<"g", ".", "c", "o", "/", "x", ".", ".">>
ShortUrl == <<"g", ".", "c", "o", "/">>

Lat10 == <<"1", "0", ".", "0">>
Long20 == <<"2", "0", ".", "0">>

\* "google.com/sorry", the mark of the block page (the substring tested).
Sorry == <<"g", "o", "o", "g", "l", "e", ".", "c", "o", "m", "/",
           "s", "o", "r", "r", "y">>

\* URLs the browser may end on, whatever was requested: a block page whose
\* URL carries a query parameter, and a page without coordinates.
SorryUrl == Sorry \o <<"?", "q", "=">> \o Lat10 \o <<",">> \o Long20
PlainUrl == <<"m", "/", "x">>

\* A maps URL whose viewport is 0,0.
ZeroUrl == <<"g", ".", "c", "o", "/", "@", "0", ",", "0">>

\* A maps URL whose viewport is 95,200: neither value is in its range.
OutUrl == <<"g", ".", "c", "o", "/", "@", "9", "5", ",", "2", "0", "0">>

\* driver.current_url after driver.get(url) returned: the URL requested (no
\* redirect) or any of the above.
Responses(url) == {url, SorryUrl, PlainUrl}

\* An entity record is a function from its keys to their values (a Python
\* dict); a key that is absent from the JSON is absent from the domain.
Entity(name, gmaps, latlong) == [name |-> name, gmaps |-> gmaps, latlong |-> latlong]
EmptyCoord == [lat |-> <<>>, long |-> <<>>]
EmptyDict == [k \in {} |-> <<>>]

EntityKinds ==
    { Entity(NameX, PinUrl, EmptyCoord),
      Entity(NameX, PinUrl, [lat |-> Lat10, long |-> Long20]),
      Entity(NameX, DotUrl, [lat |-> Lat10]),
      Entity(<<>>, <<>>, EmptyCoord),
      Entity(<<>>, ShortUrl, [lat |-> <<"1">>, long |-> <<"2">>]),
      [name |-> NameX, gmaps |-> PinUrl],
      [latlong |-> EmptyCoord],
      [name |-> NameX, gmaps |-> ZeroUrl, latlong |-> EmptyDict],
      Entity(NameX, OutUrl, EmptyCoord) }

\* dict.get(key, default)
Get(d, key, default) == IF key \in DOMAIN d THEN d[key] ELSE default

\* d[key] = value
SetItem(d, key, value) ==
    [k \in DOMAIN d \cup {key} |-> IF k = key THEN value ELSE d[k]]

\* str(v)
str(v) == IF v = None THEN <<"N", "o", "n", "e">> ELSE v

\* ------------------------------------------------------------ the state --

VARIABLES
    args,                \* the command line: force_update, output_format,
                         \* context, max_retries, retry_delay
    input_file,          \* "ok", "missing" or "malformed"
    loaded,              \* the store as json.load returned it
    data,                \* the in-memory store, in the order of the file
    jsonFile,            \* the JSON file on disk
    csvFile,             \* the CSV file on disk
    json_writes,         \* completed calls of save_to_json
    updated_count, skipped_count, failed_count, validation_warnings,
    pc,                  \* the position of the program
    idx,                 \* the entity the batch loop is at
    driver,              \* browser sessions acquired and quit
    exc,                 \* the exception main ends with
    interrupted,         \* KeyboardInterrupt was caught
    gc,                  \* the locals of get_coordinates
    log,                 \* browser and sleep calls of the current step of
                         \* get_coordinates
    ex_segs, ex_url,     \* the extractor on its own: the pieces the URL was
    ex_result,           \* put together from, the URL, and what it returns
    val_lat, val_long,   \* the validator on its own: its arguments and what
    val_result           \* it returns

mainVars == <<args, input_file, loaded, data, jsonFile, csvFile, json_writes,
              updated_count, skipped_count, failed_count,
              validation_warnings, idx, driver, exc, interrupted>>
pureVars == <<ex_segs, ex_url, ex_result, val_lat, val_long, val_result>>
vars == <<mainVars, pc, gc, log, pureVars>>

\* ------------------------------------------------------ get_coordinates --

EvGet(url) == [op |-> "get", url |-> url, secs |-> 0]
EvRaise == [op |-> "raise", url |-> <<>>, secs |-> 0]
EvLoaded(url) == [op |-> "loaded", url |-> url, secs |-> 0]
EvSleep(n) == [op |-> "sleep", url |-> <<>>, secs |-> n]

\* The settle delays after a navigation, in seconds.
SettleUrl == 4
SettleSearch == 5

\* urllib.parse.quote for the characters of the model: letters, digits and
\* "_.-~/" are kept, the others are percent-encoded.
PercentCode ==
    [c \in {" ", "!", "&", ",", "=", "?", "@"} |->
        CASE c = " " -> <<"%", "2", "0">>
          [] c = "!" -> <<"%", "2", "1">>
          [] c = "&" -> <<"%", "2", "6">>
          [] c = "," -> <<"%", "2", "C">>
          [] c = "=" -> <<"%", "3", "D">>
          [] c = "?" -> <<"%", "3", "F">>
          [] c = "@" -> <<"%", "4", "0">>]

RECURSIVE quote(_)
quote(s) ==
    IF s = <<>> THEN <<>>
    ELSE (IF s[1] \in DOMAIN PercentCode THEN PercentCode[s[1]] ELSE <<s[1]>>)
         \o quote(Tail(s))

\* "https://www.google.com/maps/search/"
SearchPrefix ==
    <<"h", "t", "t", "p", "s", ":", "/", "/", "w", "w", "w", ".">>
    \o SubSeq(Sorry, 1, 11)
    \o <<"m", "a", "p", "s", "/", "s", "e", "a", "r", "c", "h", "/">>

\* The context is appended whenever one is given.
search_query_always(name, context) ==
    IF Truthy(context) THEN name \o <<" ">> \o context ELSE name

\* The search query of step 2.
search_query(name, context) ==
    IF Truthy(context) /\ ~Contains(name, context)
    THEN name \o <<" ">> \o context
    ELSE name

search_url(name, context) == SearchPrefix \o quote(search_query(name, context))

\* The locals of a call get_coordinates(driver, gmaps_url, name, context,
\* max_retries, retry_delay).  step is the step the call is in; navs1 and
\* navs2 count the calls of driver.get of step 1 and of step 2; blocked is
\* the value of navs1 when step 1 saw a block page (0: it saw none).
Call(gmaps_url, name, context, max_retries, retry_delay) ==
    [gmaps_url |-> gmaps_url, name |-> name, context |-> context,
     max_retries |-> max_retries, retry_delay |-> retry_delay,
     attempt |-> 0, lat |-> None, long |-> None, source |-> None,
     step |-> 1, navs1 |-> 0, navs2 |-> 0, blocked |-> 0, result |-> NotFound]

NoCall == Call(<<>>, <<>>, None, 0, 0)

\* return value
Return(value) ==
    /\ pc' = "gc_return"
    /\ gc' = [gc EXCEPT !.result = value]

\* Every trailing period is removed.
RECURSIVE StripDot_all(_)
StripDot_all(url) ==
    IF EndsWith(url, <<".">>) THEN StripDot_all(SubSeq(url, 1, Len(url) - 1)) ELSE url

\* if gmaps_url and len(gmaps_url) > 5: strip one trailing period
StripDot(url) == IF EndsWith(url, <<".">>) THEN SubSeq(url, 1, Len(url) - 1) ELSE url

GcEntry ==
    /\ pc = "gc_entry"
    /\ IF Truthy(gc.gmaps_url) /\ Len(gc.gmaps_url) > 5
       THEN /\ gc' = [gc EXCEPT !.gmaps_url = StripDot(gc.gmaps_url), !.attempt = 0]
            /\ pc' = "s1_for"
       ELSE /\ gc' = gc
            /\ pc' = "s2_if"
    /\ UNCHANGED <<mainVars, log, pureVars>>

\* for attempt in range(max_retries): driver.get(gmaps_url) is called
S1Navigate ==
    /\ pc = "s1_for"
    /\ gc.attempt < gc.max_retries
    /\ log' = Append(log, EvGet(gc.gmaps_url))
    /\ gc' = [gc EXCEPT !.navs1 = gc.navs1 + 1]
    /\ pc' = "s1_get"
    /\ UNCHANGED <<mainVars, pureVars>>

\* the for loop of step 1 is exhausted
S1Exhausted ==
    /\ pc = "s1_for"
    /\ gc.attempt >= gc.max_retries
    /\ pc' = "s2_if"
    /\ UNCHANGED <<mainVars, gc, log, pureVars>>

\* The wait grows linearly instead of doubling.
Backoff_linear(g) ==
    IF g.attempt < g.max_retries - 1
    THEN <<EvSleep(g.retry_delay * (g.attempt + 1))>>
    ELSE <<>>

\* The except clause of both steps: back off unless this was the last attempt.
Backoff(g) ==
    IF g.attempt < g.max_retries - 1
    THEN <<EvSleep(g.retry_delay * Pow2(g.attempt))>>
    ELSE <<>>

\* driver.get raises
S1Raise ==
    /\ pc = "s1_get"
    /\ log' = log \o <<EvRaise>> \o Backoff(gc)
    /\ gc' = [gc EXCEPT !.attempt = gc.attempt + 1]
    /\ pc' = "s1_for"
    /\ UNCHANGED <<mainVars, pureVars>>

\* A block page: "google.com/sorry" in final_url
IsBlocked(final_url) == Contains(final_url, Sorry)

\* Step 1 applies the extractor to a block page too.
S1Result_ignores_block(final_url) == extract_coordinates_from_url(final_url)

\* What step 1 makes of the URL the browser ended on.
S1Result(final_url) ==
    IF IsBlocked(final_url) THEN NotFound
    ELSE extract_coordinates_from_url(final_url)

\* A block page is retried like a failed navigation.
S1Loaded_retries_block ==
    /\ pc = "s1_get"
    /\ \E final_url \in Responses(gc.gmaps_url) :
          LET r == S1Result(final_url) IN
          /\ log' = log \o <<EvSleep(SettleUrl), EvLoaded(final_url)>>
          /\ IF Truthy(r[1]) /\ Truthy(r[2])
             THEN /\ pc' = "gc_return"
                  /\ gc' = [gc EXCEPT !.lat = r[1], !.long = r[2],
                                      !.source = r[3], !.result = r]
             ELSE IF IsBlocked(final_url)
             THEN /\ pc' = "s1_for"
                  /\ gc' = [gc EXCEPT !.attempt = gc.attempt + 1,
                                      !.blocked = gc.navs1]
             ELSE /\ pc' = "s2_if"
                  /\ gc' = [gc EXCEPT !.lat = r[1], !.long = r[2], !.source = r[3]]
    /\ UNCHANGED <<mainVars, pureVars>>

\* driver.get returns; after the settle delay the resulting URL is read
S1Loaded ==
    /\ pc = "s1_get"
    /\ \E final_url \in Responses(gc.gmaps_url) :
          LET r == S1Result(final_url) IN
          /\ log' = log \o <<EvSleep(SettleUrl), EvLoaded(final_url)>>
          /\ IF Truthy(r[1]) /\ Truthy(r[2])
             THEN /\ pc' = "gc_return"
                  /\ gc' = [gc EXCEPT !.lat = r[1], !.long = r[2],
                                      !.source = r[3], !.result = r]
             ELSE \* break
                  /\ pc' = "s2_if"
                  /\ gc' = [gc EXCEPT !.lat = r[1], !.long = r[2], !.source = r[3],
                                      !.blocked = IF IsBlocked(final_url)
                                                  THEN gc.navs1 ELSE 0]
    /\ UNCHANGED <<mainVars, pureVars>>

\* if not lat or not long: step 2 begins (and the log of step 1 ends)
S2If ==
    /\ pc = "s2_if"
    /\ IF ~Truthy(gc.lat) \/ ~Truthy(gc.long)
       THEN /\ pc' = "s2_for"
            /\ gc' = [gc EXCEPT !.attempt = 0, !.step = 2]
       ELSE Return(NotFound)
    /\ log' = <<>>
    /\ UNCHANGED <<mainVars, pureVars>>

S2Navigate ==
    /\ pc = "s2_for"
    /\ gc.attempt < gc.max_retries
    /\ log' = Append(log, EvGet(search_url(gc.name, gc.context)))
    /\ gc' = [gc EXCEPT !.navs2 = gc.navs2 + 1]
    /\ pc' = "s2_get"
    /\ UNCHANGED <<mainVars, pureVars>>

S2Exhausted ==
    /\ pc = "s2_for"
    /\ gc.attempt >= gc.max_retries
    /\ Return(NotFound)
    /\ UNCHANGED <<mainVars, log, pureVars>>

\* The error of the last attempt is raised again instead of being logged.
S2Raise_reraises ==
    /\ pc = "s2_get"
    /\ IF gc.attempt < gc.max_retries - 1
       THEN /\ log' = log \o <<EvRaise>> \o Backoff(gc)
            /\ gc' = [gc EXCEPT !.attempt = gc.attempt + 1]
            /\ pc' = "s2_for"
            /\ UNCHANGED <<mainVars, pureVars>>
       ELSE /\ log' = <<>>
            /\ gc' = NoCall
            /\ pc' = "finally"
            /\ exc' = "WebDriverException"
            /\ UNCHANGED <<args, input_file, loaded, data, jsonFile, csvFile,
                           json_writes, updated_count, skipped_count,
                           failed_count, validation_warnings, idx, driver,
                           interrupted, pureVars>>

S2Raise ==
    /\ pc = "s2_get"
    /\ log' = log \o <<EvRaise>> \o Backoff(gc)
    /\ gc' = [gc EXCEPT !.attempt = gc.attempt + 1]
    /\ pc' = "s2_for"
    /\ UNCHANGED <<mainVars, pureVars>>

\* What step 2 makes of the URL the browser ended on.
S2Result(final_url) == extract_coordinates_from_url(final_url)

S2Loaded ==
    /\ pc = "s2_get"
    /\ \E final_url \in Responses(search_url(gc.name, gc.context)) :
          LET r == S2Result(final_url) IN
          /\ log' = log \o <<EvSleep(SettleSearch), EvLoaded(final_url)>>
          /\ pc' = "gc_return"
          /\ gc' = [gc EXCEPT !.lat = r[1], !.long = r[2], !.source = r[3],
                              !.result = IF Truthy(r[1]) /\ Truthy(r[2])
                                         THEN r ELSE NotFound]
    /\ UNCHANGED <<mainVars, pureVars>>

get_coordinates ==
    \/ GcEntry
    \/ S1Navigate \/ S1Exhausted \/ S1Raise \/ S1Loaded
    \/ S2If
    \/ S2Navigate \/ S2Exhausted \/ S2Raise \/ S2Loaded

\* ----------------------------------------------------- the file system --

\* open(output_file, 'w') truncates the file; json.dump then writes all of
\* data.  In between the file holds no complete store.
Intact(store) == [state |-> "intact", content |-> store]
Truncated == [state |-> "truncated", content |-> <<>>]

\* The rows save_to_csv writes after the header: key, name, gmaps_url,
\* latitude, longitude.  The key of an entity is its place in the store.
CsvRows(store) ==
    [i \in 1..Len(store) |->
        LET latlong == Get(store[i], "latlong", EmptyDict) IN
        <<i, Get(store[i], "name", <<>>), Get(store[i], "gmaps", <<>>),
          Get(latlong, "lat", <<>>), Get(latlong, "long", <<>>)>>]

NoCsv == [written |-> FALSE, rows |-> <<>>]

\* ----------------------------------------------------------------- main --

\* The periodic save comes one update late.
SaveEvery_late == 5 + 1

\* Periodic save every 5 updates.
SaveEvery == 5

\* The default of --retry-delay.
DefaultRetryDelay == 5

Item == data[idx]
name == Get(Item, "name", Unknown)
gmaps_url == Get(Item, "gmaps", <<>>)
latlong == Get(Item, "latlong", EmptyDict)
current_lat == Get(latlong, "lat", <<>>)
current_long == Get(latlong, "long", <<>>)

\* "and" for "or": an entity with one value present is passed over.
should_process_both_missing ==
    args.force_update \/ (~Truthy(current_lat) /\ ~Truthy(current_long))

should_process == args.force_update \/ ~Truthy(current_lat) \/ ~Truthy(current_long)

\* if not gmaps_url and not name:
NoData == ~Truthy(gmaps_url) /\ ~Truthy(name)

\* with open(input_file) as f: data = json.load(f)
LoadInput ==
    /\ pc = "start"
    /\ input_file = "ok"
    /\ pc' = "init_browser"
    /\ UNCHANGED <<mainVars, gc, log, pureVars>>

\* The error is logged and main goes on to start the browser.
LoadFails_goes_on ==
    /\ pc = "start"
    /\ input_file # "ok"
    /\ pc' = "init_browser"
    /\ UNCHANGED <<mainVars, gc, log, pureVars>>

\* FileNotFoundError or JSONDecodeError: log and return
LoadFails ==
    /\ pc = "start"
    /\ input_file # "ok"
    /\ pc' = "done"
    /\ UNCHANGED <<mainVars, gc, log, pureVars>>

\* driver = webdriver.Chrome(...); the counters are set to 0
AcquireDriver ==
    /\ pc = "init_browser"
    /\ driver' = [driver EXCEPT !.acquired = driver.acquired + 1]
    /\ updated_count' = 0
    /\ skipped_count' = 0
    /\ failed_count' = 0
    /\ validation_warnings' = 0
    /\ pc' = "pre_try"
    /\ UNCHANGED <<args, input_file, loaded, data, jsonFile, csvFile, json_writes, idx,
                   exc, interrupted, gc, log, pureVars>>

\* try: ... for key, item in data.items():
EnterTry ==
    /\ pc = "pre_try"
    /\ idx' = 1
    /\ pc' = "for"
    /\ UNCHANGED <<args, input_file, loaded, data, jsonFile, csvFile, json_writes,
                   updated_count, skipped_count, failed_count,
                   validation_warnings, driver, exc, interrupted, gc, log, pureVars>>

\* the loop has visited every entity
LoopDone ==
    /\ pc = "for"
    /\ idx > Len(data)
    /\ pc' = "finally"
    /\ UNCHANGED <<mainVars, gc, log, pureVars>>

\* should_process is False
NotSelected ==
    /\ pc = "for"
    /\ idx <= Len(data)
    /\ ~should_process
    /\ idx' = idx + 1
    /\ UNCHANGED <<args, input_file, loaded, data, jsonFile, csvFile, json_writes,
                   updated_count, skipped_count, failed_count,
                   validation_warnings, driver, exc, interrupted, pc, gc, log,
                   pureVars>>

\* SKIPPED: No Name or URL
SkipNoData ==
    /\ pc = "for"
    /\ idx <= Len(data)
    /\ should_process
    /\ NoData
    /\ skipped_count' = skipped_count + 1
    /\ idx' = idx + 1
    /\ UNCHANGED <<args, input_file, loaded, data, jsonFile, csvFile, json_writes,
                   updated_count, failed_count, validation_warnings, driver,
                   exc, interrupted, pc, gc, log, pureVars>>

\* new_lat, new_long, source = get_coordinates(...) is called
CallGetCoordinates ==
    /\ pc = "for"
    /\ idx <= Len(data)
    /\ should_process
    /\ ~NoData
    /\ gc' = Call(gmaps_url, name, args.context, args.max_retries, args.retry_delay)
    /\ log' = <<>>
    /\ pc' = "gc_entry"
    /\ UNCHANGED <<mainVars, pureVars>>

new_lat == gc.result[1]
new_long == gc.result[2]

\* A pair that fails validation counts as not resolved.
Resolved_and_valid ==
    /\ Truthy(new_lat)
    /\ Truthy(new_long)
    /\ validate_coordinates(new_lat, new_long)[1]

\* if new_lat and new_long:
Resolved == Truthy(new_lat) /\ Truthy(new_long)

\* if warnings: validation_warnings += 1
Warned(n) ==
    IF validate_coordinates(new_lat, new_long)[2] # <<>> THEN n + 1 ELSE n

\* if new_lat != current_lat or new_long != current_long:
Changed == new_lat # current_lat \/ new_long # current_long

\* FAILED: Could not resolve coordinates
ResolveFailed ==
    /\ pc = "gc_return"
    /\ ~Resolved
    /\ failed_count' = failed_count + 1
    /\ idx' = idx + 1
    /\ pc' = "for"
    /\ log' = <<>>
    /\ gc' = NoCall
    /\ UNCHANGED <<args, input_file, loaded, data, jsonFile, csvFile, json_writes,
                   updated_count, skipped_count, validation_warnings, driver,
                   exc, interrupted, pureVars>>

\* A pair equal to the record's coordinate is counted as an update.
ResolveUnchanged_counted ==
    /\ pc = "gc_return"
    /\ Resolved
    /\ ~Changed
    /\ validation_warnings' = Warned(validation_warnings)
    /\ updated_count' = updated_count + 1
    /\ idx' = idx + 1
    /\ pc' = "for"
    /\ log' = <<>>
    /\ gc' = NoCall
    /\ UNCHANGED <<args, input_file, loaded, data, jsonFile, csvFile,
                   json_writes, skipped_count, failed_count, driver, exc,
                   interrupted, pureVars>>

\* No change
ResolveUnchanged ==
    /\ pc = "gc_return"
    /\ Resolved
    /\ ~Changed
    /\ validation_warnings' = Warned(validation_warnings)
    /\ idx' = idx + 1
    /\ pc' = "for"
    /\ log' = <<>>
    /\ gc' = NoCall
    /\ UNCHANGED <<args, input_file, loaded, data, jsonFile, csvFile, json_writes,
                   updated_count, skipped_count, failed_count, driver, exc,
                   interrupted, pureVars>>

\* item['latlong']['lat'] = str(new_lat)
UpdatedLat(item) ==
    [item EXCEPT !["latlong"] = SetItem(item["latlong"], "lat", str(new_lat))]

\* item['latlong']['long'] = str(new_long)
UpdatedLong(item) ==
    [item EXCEPT !["latlong"] = SetItem(item["latlong"], "long", str(new_long))]

\* The pair changed: the warnings are counted and lat is written.  The two
\* values are written by two statements and the count by a third; a
\* KeyboardInterrupt may arrive between any two of them.
SetLat ==
    /\ pc = "gc_return"
    /\ Resolved
    /\ Changed
    /\ "latlong" \in DOMAIN Item
    /\ validation_warnings' = Warned(validation_warnings)
    /\ data' = [data EXCEPT ![idx] = UpdatedLat(Item)]
    /\ pc' = "set_long"
    /\ UNCHANGED <<args, input_file, loaded, jsonFile, csvFile, json_writes,
                   updated_count, skipped_count, failed_count, idx, driver,
                   exc, interrupted, gc, log, pureVars>>

\* long is written
SetLong ==
    /\ pc = "set_long"
    /\ data' = [data EXCEPT ![idx] = UpdatedLong(Item)]
    /\ pc' = "count_update"
    /\ log' = <<>>
    /\ gc' = NoCall
    /\ UNCHANGED <<args, input_file, loaded, jsonFile, csvFile, json_writes,
                   updated_count, skipped_count, failed_count,
                   validation_warnings, idx, driver, exc, interrupted,
                   pureVars>>

\* UPDATED; the periodic save follows when updated_count % 5 == 0
ResolveUpdated ==
    /\ pc = "count_update"
    /\ updated_count' = updated_count + 1
    /\ IF updated_count' % SaveEvery = 0
       THEN /\ pc' = "periodic_save"
            /\ idx' = idx
       ELSE /\ pc' = "for"
            /\ idx' = idx + 1
    /\ UNCHANGED <<args, input_file, loaded, data, jsonFile, csvFile, json_writes,
                   skipped_count, failed_count, validation_warnings, driver,
                   exc, interrupted, gc, log, pureVars>>

\* item['latlong'] raises KeyError when the record has no 'latlong' key:
\* the exception leaves the loop through the finally clause
ResolveKeyError ==
    /\ pc = "gc_return"
    /\ Resolved
    /\ Changed
    /\ "latlong" \notin DOMAIN Item
    /\ validation_warnings' = Warned(validation_warnings)
    /\ exc' = "KeyError"
    /\ pc' = "finally"
    /\ log' = <<>>
    /\ gc' = NoCall
    /\ UNCHANGED <<args, input_file, loaded, data, jsonFile, csvFile, json_writes,
                   updated_count, skipped_count, failed_count, idx, driver,
                   interrupted, pureVars>>

\* save_to_json(data, input_file): open(output_file, 'w')
PeriodicSaveOpen ==
    /\ pc = "periodic_save"
    /\ jsonFile' = Truncated
    /\ pc' = "periodic_dump"
    /\ UNCHANGED <<args, input_file, loaded, data, csvFile, json_writes,
                   updated_count, skipped_count, failed_count,
                   validation_warnings, idx, driver, exc, interrupted, gc, log,
                   pureVars>>

\* The periodic save writes the store as it was loaded.
PeriodicSaveDump_stale ==
    /\ pc = "periodic_dump"
    /\ jsonFile' = Intact(loaded)
    /\ json_writes' = json_writes + 1
    /\ idx' = idx + 1
    /\ pc' = "for"
    /\ UNCHANGED <<args, input_file, loaded, data, csvFile, updated_count,
                   skipped_count, failed_count, validation_warnings, driver,
                   exc, interrupted, gc, log, pureVars>>

\* save_to_json(data, input_file): json.dump(data, f)
PeriodicSaveDump ==
    /\ pc = "periodic_dump"
    /\ jsonFile' = Intact(data)
    /\ json_writes' = json_writes + 1
    /\ idx' = idx + 1
    /\ pc' = "for"
    /\ UNCHANGED <<args, input_file, loaded, data, csvFile, updated_count,
                   skipped_count, failed_count, validation_warnings, driver,
                   exc, interrupted, gc, log, pureVars>>

\* The positions inside the try statement.
InTry == {"for", "gc_entry", "s1_for", "s1_get", "s2_if", "s2_for", "s2_get",
          "gc_return", "set_long", "count_update", "periodic_save",
          "periodic_dump"}

\* KeyboardInterrupt inside the try statement: it unwinds get_coordinates
\* (its locals are gone) and is caught by except KeyboardInterrupt
Interrupt ==
    /\ pc \in InTry
    /\ interrupted' = TRUE
    /\ pc' = "finally"
    /\ gc' = NoCall
    /\ log' = <<>>
    /\ UNCHANGED <<args, input_file, loaded, data, jsonFile, csvFile, json_writes,
                   updated_count, skipped_count, failed_count,
                   validation_warnings, idx, driver, exc, pureVars>>

\* KeyboardInterrupt between the loading of the input and the try
\* statement: nothing catches it
InterruptOutside ==
    /\ pc \in {"init_browser", "pre_try"}
    /\ exc' = "KeyboardInterrupt"
    /\ pc' = "done"
    /\ UNCHANGED <<args, input_file, loaded, data, jsonFile, csvFile, json_writes,
                   updated_count, skipped_count, failed_count,
                   validation_warnings, idx, driver, interrupted, gc, log,
                   pureVars>>

\* finally: driver.quit()
DriverQuit ==
    /\ pc = "finally"
    /\ driver' = [driver EXCEPT !.quit = driver.quit + 1]
    /\ pc' = "final_save"
    /\ UNCHANGED <<args, input_file, loaded, data, jsonFile, csvFile, json_writes,
                   updated_count, skipped_count, failed_count,
                   validation_warnings, idx, exc, interrupted, gc, log, pureVars>>

\* The final save is made only when the loop ended normally.
FinalSave_unless_interrupted ==
    /\ pc = "final_save"
    /\ jsonFile' = IF interrupted THEN jsonFile ELSE Intact(data)
    /\ json_writes' = IF interrupted THEN json_writes ELSE json_writes + 1
    /\ pc' = "final_csv"
    /\ UNCHANGED <<args, input_file, loaded, data, csvFile, updated_count,
                   skipped_count, failed_count, validation_warnings, idx,
                   driver, exc, interrupted, gc, log, pureVars>>

\* finally: save_to_json(data, input_file)
FinalSave ==
    /\ pc = "final_save"
    /\ jsonFile' = Intact(data)
    /\ json_writes' = json_writes + 1
    /\ pc' = "final_csv"
    /\ UNCHANGED <<args, input_file, loaded, data, csvFile, updated_count,
                   skipped_count, failed_count, validation_warnings, idx,
                   driver, exc, interrupted, gc, log, pureVars>>

\* if output_format == 'csv'
WantsCsv(a) == a.output_format = "csv"

\* finally: save_to_csv if requested; then main ends, with the pending
\* exception if there is one, with the summary otherwise
FinalCsv ==
    /\ pc = "final_csv"
    /\ csvFile' = IF WantsCsv(args)
                  THEN [written |-> TRUE, rows |-> CsvRows(data)]
                  ELSE csvFile
    /\ pc' = "done"
    /\ UNCHANGED <<args, input_file, loaded, data, jsonFile, json_writes,
                   updated_count, skipped_count, failed_count,
                   validation_warnings, idx, driver, exc, interrupted, gc, log,
                   pureVars>>

main ==
    \/ LoadInput \/ LoadFails \/ AcquireDriver \/ EnterTry
    \/ LoopDone \/ NotSelected \/ SkipNoData \/ CallGetCoordinates
    \/ ResolveFailed \/ ResolveUnchanged \/ ResolveKeyError
    \/ SetLat \/ SetLong \/ ResolveUpdated
    \/ PeriodicSaveOpen \/ PeriodicSaveDump
    \/ Interrupt \/ InterruptOutside
    \/ DriverQuit \/ FinalSave \/ FinalCsv

\* ----------------------------------------------------- specifications --

\* The stores of a run: up to MaxMixed entities of which one is of any kind
\* and the others lack their coordinate, run under any command line; and up
\* to MaxEntities entities that all lack their coordinate, run under the
\* default command line with one attempt a step.
Plain == Entity(NameX, PinUrl, EmptyCoord)
MixedStores ==
    {<<>>} \cup
    {[i \in 1..n |-> IF i = j THEN k ELSE Plain] :
        n \in 1..MaxMixed, j \in 1..MaxMixed, k \in EntityKinds}
LongStores == {[i \in 1..n |-> Plain] : n \in 1..MaxEntities}

Args ==
    [force_update : BOOLEAN, output_format : {"json", "csv"}, context : {None},
     max_retries : 0..MaxRetries, retry_delay : {DefaultRetryDelay}]
LongArgs ==
    [force_update : {FALSE}, output_format : {"json"}, context : {None},
     max_retries : {1}, retry_delay : {DefaultRetryDelay}]

Init ==
    /\ \/ data \in MixedStores /\ args \in Args
       \/ data \in LongStores /\ args \in LongArgs
    /\ input_file \in {"ok", "missing", "malformed"}
    /\ loaded = data
    /\ jsonFile = Intact(data)
    /\ csvFile = NoCsv
    /\ json_writes = 0
    /\ updated_count = 0
    /\ skipped_count = 0
    /\ failed_count = 0
    /\ validation_warnings = 0
    /\ pc = "start"
    /\ idx = 0
    /\ driver = [acquired |-> 0, quit |-> 0]
    /\ exc = "none"
    /\ interrupted = FALSE
    /\ gc = NoCall
    /\ log = <<>>
    /\ ex_segs = <<>>
    /\ ex_url = <<>>
    /\ ex_result = NotFound
    /\ val_lat = None
    /\ val_long = None
    /\ val_result = NoVerdict

Next == main \/ get_coordinates

Spec == Init /\ [][Next]_vars

\* ------------------------------------------- get_coordinates on its own --

MaxGetRetries == 4

NameXNY == <<"X", " ", "N", "Y">>

Calls ==
    {Call(u, n, c, r, d) :
        u \in {PinUrl, DotUrl, ShortUrl, <<>>},
        n \in {NameX, NameXNY},
        c \in {None, ContextNY},
        r \in 0..MaxGetRetries,
        d \in {1, DefaultRetryDelay}}

InitGet ==
    /\ args = [force_update |-> FALSE, output_format |-> "json", context |-> None,
               max_retries |-> 0, retry_delay |-> DefaultRetryDelay]
    /\ input_file = "ok"
    /\ data = <<>>
    /\ loaded = data
    /\ jsonFile = Intact(data)
    /\ csvFile = NoCsv
    /\ json_writes = 0
    /\ updated_count = 0
    /\ skipped_count = 0
    /\ failed_count = 0
    /\ validation_warnings = 0
    /\ idx = 0
    /\ driver = [acquired |-> 1, quit |-> 0]
    /\ exc = "none"
    /\ interrupted = FALSE
    /\ pc = "gc_entry"
    /\ gc \in Calls
    /\ log = <<>>
    /\ ex_segs = <<>>
    /\ ex_url = <<>>
    /\ ex_result = NotFound
    /\ val_lat = None
    /\ val_long = None
    /\ val_result = NoVerdict

NextGet == get_coordinates

SpecGet == InitGet /\ [][NextGet]_vars

\* The program runs on one thread and every call of the browser and of
\* time.sleep returns or raises: a step that can be taken is taken.
FairSpecGet == SpecGet /\ WF_vars(NextGet)

\* ------------------------------ extract_coordinates_from_url on its own --

MaxSegs == 3

\* The pieces a URL is put together from.  A piece has the text it adds to
\* the URL and, for a combined pin, the two numbers it was written with.
Seg(kind, text, lat, long) == [kind |-> kind, text |-> text, lat |-> lat, long |-> long]
PinSeg(lat, long) == Seg("pin", Lit3d \o lat \o Lit4d \o long, lat, long)

Segs ==
    { PinSeg(Lat10, Long20),
      PinSeg(<<"-", "7">>, <<"8", ".">>),
      Seg("lat", Lit3d \o <<"3", "3">>, None, None),
      Seg("long", Lit2d \o <<"4", "4">>, None, None),
      Seg("query", <<"?", "q", "=", "5", ",", "6">>, None, None),
      Seg("query", <<"&", "l", "l", "=", "-", "5", ",", "6", ".", "5">>, None, None),
      Seg("viewport", <<"@", "7", ".", "1", ",", "-", "8">>, None, None),
      Seg("text", <<"/">>, None, None),
      Seg("digit", <<"9">>, None, None) }

InitExtract ==
    /\ args = [force_update |-> FALSE, output_format |-> "json", context |-> None,
               max_retries |-> 0, retry_delay |-> DefaultRetryDelay]
    /\ input_file = "ok"
    /\ data = <<>>
    /\ loaded = data
    /\ jsonFile = Intact(data)
    /\ csvFile = NoCsv
    /\ json_writes = 0
    /\ updated_count = 0
    /\ skipped_count = 0
    /\ failed_count = 0
    /\ validation_warnings = 0
    /\ idx = 0
    /\ driver = [acquired |-> 0, quit |-> 0]
    /\ exc = "none"
    /\ interrupted = FALSE
    /\ pc = "extract"
    /\ gc = NoCall
    /\ log = <<>>
    /\ ex_segs = <<>>
    /\ ex_url = <<>>
    /\ ex_result = extract_coordinates_from_url(<<>>)
    /\ val_lat = None
    /\ val_long = None
    /\ val_result = NoVerdict

\* A piece is added to the URL and the extractor is applied to the result.
Extract ==
    /\ pc = "extract"
    /\ Len(ex_segs) < MaxSegs
    /\ \E seg \in Segs :
          /\ ex_segs' = Append(ex_segs, seg)
          /\ ex_url' = ex_url \o seg.text
          /\ ex_result' = extract_coordinates_from_url(ex_url \o seg.text)
    /\ UNCHANGED <<mainVars, pc, gc, log, val_lat, val_long, val_result>>

NextExtract == Extract

SpecExtract == InitExtract /\ [][NextExtract]_vars

\* -------------------------------------- validate_coordinates on its own --

\* The arguments of validate_coordinates: the numerals the extractor can
\* return, at and around the ends of the two ranges, and the other values
\* the signature admits (any string, None).
Numerals ==
    { <<"0">>, <<"-", "0">>, <<"0", ".", "0">>, <<"7", ".">>,
      <<"9", "0">>, <<"-", "9", "0">>, <<"9", "0", ".", "0">>,
      <<"9", "0", ".", "1">>, <<"-", "9", "0", ".", "1">>, <<"9", "5">>,
      <<"1", "8", "0">>, <<"-", "1", "8", "0">>, <<"1", "8", "0", ".", "5">>,
      <<"-", "1", "8", "1">>,
      <<"4", "0", ".", "7", "1", "2", "8">>,
      <<"-", "7", "4", ".", "0", "0", "6", "0">> }
Others ==
    { None, <<>>, <<"x">>, <<"1", ".", "2", ".", "3">>,
      <<"n", "a", "n">>, <<"i", "n", "f">>, <<"-", "i", "n", "f">> }

InitValidate ==
    /\ args = [force_update |-> FALSE, output_format |-> "json", context |-> None,
               max_retries |-> 0, retry_delay |-> DefaultRetryDelay]
    /\ input_file = "ok"
    /\ data = <<>>
    /\ loaded = data
    /\ jsonFile = Intact(data)
    /\ csvFile = NoCsv
    /\ json_writes = 0
    /\ updated_count = 0
    /\ skipped_count = 0
    /\ failed_count = 0
    /\ validation_warnings = 0
    /\ idx = 0
    /\ driver = [acquired |-> 0, quit |-> 0]
    /\ exc = "none"
    /\ interrupted = FALSE
    /\ pc = "validate"
    /\ gc = NoCall
    /\ log = <<>>
    /\ ex_segs = <<>>
    /\ ex_url = <<>>
    /\ ex_result = NotFound
    /\ val_lat \in Numerals \cup Others
    /\ val_long \in Numerals \cup Others
    /\ val_result = NoVerdict

\* is_valid, warnings = validate_coordinates(lat, long)
Validate ==
    /\ pc = "validate"
    /\ val_result' = validate_coordinates(val_lat, val_long)
    /\ pc' = "validated"
    /\ UNCHANGED <<mainVars, gc, log, ex_segs, ex_url, ex_result, val_lat, val_long>>

NextValidate == Validate

SpecValidate == InitValidate /\ [][NextValidate]_vars

\* --------------------------------------------------------------- claims --

\* The coordinate of a record: its lat and long, the empty string for a key
\* that is missing.
CoordOf(item) ==
    LET ll == Get(item, "latlong", EmptyDict)
    IN  <<Get(ll, "lat", <<>>), Get(ll, "long", <<>>)>>

Counters == <<updated_count, failed_count, skipped_count, validation_warnings>>

\* The step taken is not the arrival of a KeyboardInterrupt.
NotInterrupted == interrupted' = interrupted

\* C1: when the resolution of an entity returns a pair (lat, long) that
\* differs from the record's coordinate, the record's coordinate becomes
\* (lat, long) (lat is written, then long), updated_count grows by 1 and the
\* batch goes on (to the periodic save or to the next entity); when the
\* pair equals the record's coordinate, the record and updated_count stay
\* as they are.  This holds for every record of the data model, the one
\* without a coordinate field included.
C1_ResolvedIsWritten ==
    [][ /\ (pc = "gc_return" /\ Resolved /\ NotInterrupted) =>
              IF Changed
              THEN /\ CoordOf(data'[idx])[1] = new_lat
                   /\ pc' = "set_long"
                   /\ exc' = "none"
              ELSE /\ data' = data
                   /\ updated_count' = updated_count
        /\ (pc = "set_long" /\ NotInterrupted) =>
              /\ CoordOf(data'[idx]) = <<new_lat, new_long>>
              /\ pc' = "count_update"
        /\ (pc = "count_update" /\ NotInterrupted) =>
              /\ data' = data
              /\ updated_count' = updated_count + 1
              /\ pc' \in {"for", "periodic_save"}
              /\ exc' = "none" ]_vars

\* C2: an entity whose lat and long are both present is passed over when
\* force is off: the loop moves to the next entity, get_coordinates is not
\* called (no navigation), the store and the counters stay as they are.
\* With force on, or with lat or long missing, get_coordinates is called
\* unless the entity has no data.
C2_ExistingCoordinateIsKept ==
    [][ (pc = "for" /\ idx <= Len(data) /\ NotInterrupted) =>
           IF Truthy(CoordOf(Item)[1]) /\ Truthy(CoordOf(Item)[2]) /\ ~args.force_update
           THEN /\ pc' = "for"
                /\ idx' = idx + 1
                /\ data' = data
                /\ Counters' = Counters
                /\ gc' = gc
                /\ log' = log
           ELSE NoData \/ pc' = "gc_entry" ]_vars

\* An entity with both values present was passed over with force off and
\* the loop stands at the next entity.
C2_Witness ==
    /\ pc = "for"
    /\ idx = 2
    /\ idx <= Len(data)
    /\ ~args.force_update
    /\ CoordOf(data[1]) = <<Lat10, Long20>>
    /\ jsonFile = Intact(data)
    /\ Counters = <<0, 0, 0, 0>>

\* C3: inside the loop the number of completed writes of the JSON file is
\* the number of multiples of 5 that updated_count has reached (the write
\* for the last one may be under way), so a save is made at every 5th
\* update and at no other; and while updated_count stands at a positive
\* multiple of 5 and that write is done, the file holds the whole store
\* until the next update is being written: the 5th update is on disk before
\* the next entity is processed.
C3_PeriodicSave ==
    pc \in InTry =>
        IF pc \in {"periodic_save", "periodic_dump"}
        THEN /\ updated_count > 0
             /\ updated_count % 5 = 0
             /\ json_writes = (updated_count \div 5) - 1
        ELSE /\ json_writes = updated_count \div 5
             /\ (/\ updated_count > 0
                 /\ updated_count % 5 = 0
                 /\ pc \notin {"set_long", "count_update"}) => jsonFile = Intact(data)

\* The 6th update has been made: the file holds the store as it was after
\* the 5th, written by the one periodic save.
C3_Witness ==
    /\ pc = "for"
    /\ updated_count = 6
    /\ json_writes = 1
    /\ jsonFile.state = "intact"
    /\ jsonFile.content # data
    /\ CoordOf(jsonFile.content[5]) = <<Lat10, Long20>>
    /\ CoordOf(jsonFile.content[6]) = <<<<>>, <<>>>>

\* C4: when main ends after the loop was entered (all entities processed,
\* or a KeyboardInterrupt at any point of the loop), the JSON file holds the
\* whole in-memory store, and the CSV file is written, with the rows of
\* the store, exactly when csv was asked for.
C4_FinalSave ==
    (pc = "done" /\ idx >= 1) =>
        /\ jsonFile = Intact(data)
        /\ json_writes >= 1
        /\ csvFile = IF args.output_format = "csv"
                     THEN [written |-> TRUE, rows |-> CsvRows(data)]
                     ELSE NoCsv

\* main has ended after a KeyboardInterrupt that came during the periodic
\* save of the 5th update: the only completed write is the final one.
C4_Witness ==
    /\ pc = "done"
    /\ interrupted
    /\ updated_count = 5
    /\ json_writes = 1
    /\ jsonFile = Intact(data)

\* The positions inside get_coordinates.
GcPcs == {"gc_entry", "s1_for", "s1_get", "s2_if", "s2_for", "s2_get"}

\* A URL the browser ended on in step `step` gives no coordinates.
NoCoordinates(step, url) ==
    \/ extract_coordinates_from_url(url) = NotFound
    \/ step = 1 /\ Contains(url, Sorry)

\* No navigation of the step the log is of gave coordinates.
NoYield ==
    \A i \in 1..Len(log) :
        log[i].op = "loaded" => NoCoordinates(gc.step, log[i].url)

\* C5: whatever the navigations of get_coordinates do (raise, or end on a
\* page), the call goes on inside get_coordinates or returns, and main's
\* state is untouched; and when the call returns with no navigation having
\* given coordinates, failed_count grows by exactly 1, the store and the
\* other counters stay as they are, and the loop moves to the next entity.
C5_FailureDoesNotStopBatch ==
    [][ /\ (pc \in GcPcs /\ NotInterrupted) =>
              /\ pc' \in GcPcs \cup {"gc_return"}
              /\ mainVars' = mainVars
        /\ (pc = "gc_return" /\ NoYield /\ NotInterrupted) =>
              /\ failed_count' = failed_count + 1
              /\ data' = data
              /\ <<updated_count, skipped_count, validation_warnings>>' =
                    <<updated_count, skipped_count, validation_warnings>>
              /\ idx' = idx + 1
              /\ pc' = "for"
              /\ exc' = "none" ]_vars

\* With max_retries = 2 the first two entities have failed, the store is
\* as it was loaded, and the third entity is being resolved.
C5_Witness ==
    /\ pc = "gc_entry"
    /\ idx = 3
    /\ failed_count = 2
    /\ updated_count = 0
    /\ args.max_retries = 2
    /\ data = jsonFile.content

\* Neither a name nor a maps URL: absent from the record or empty.
NeitherNameNorUrl(item) ==
    /\ Get(item, "name", <<>>) = <<>>
    /\ Get(item, "gmaps", <<>>) = <<>>

\* C6: an entity selected for processing that has neither a name nor a maps
\* URL is skipped: get_coordinates is not called (no navigation),
\* skipped_count grows by exactly 1, the store and the other counters stay
\* as they are.
C6_NoDataIsSkipped ==
    [][ (/\ pc = "for"
         /\ idx <= Len(data)
         /\ should_process
         /\ NeitherNameNorUrl(Item)
         /\ NotInterrupted) =>
           /\ pc' = "for"
           /\ idx' = idx + 1
           /\ skipped_count' = skipped_count + 1
           /\ data' = data
           /\ <<updated_count, failed_count>>' = <<updated_count, failed_count>>
           /\ gc' = gc
           /\ log' = log ]_vars

\* C10: the browser session is acquired at most once; when main has ended
\* it has been quit exactly as often as it was acquired; it is never quit
\* more often than acquired; and with a missing or malformed input file it
\* is not acquired.
C10_SessionIsReleased ==
    /\ driver.acquired <= 1
    /\ driver.quit <= driver.acquired
    /\ pc = "done" => driver.quit = driver.acquired
    /\ input_file # "ok" => driver.acquired = 0

\* The place of the first combined pin among the pieces of the URL.
FirstPin == Min({i \in 1..Len(ex_segs) : ex_segs[i].kind = "pin"})

\* The digits that follow piece i - 1 directly (they continue its number).
RECURSIVE DigitsAfter(_, _)
DigitsAfter(segs, i) ==
    IF i <= Len(segs) /\ segs[i].kind = "digit"
    THEN segs[i].text \o DigitsAfter(segs, i + 1)
    ELSE <<>>

\* C7: a URL that holds a combined pin !3d<lat>!4d<long> gives the lat and
\* the long of the (first) combined pin, the long taken as far as its
\* digits go, with source pin, whatever other patterns stand before or
\* after it.
C7_CombinedPinWins ==
    (pc = "extract" /\ \E i \in 1..Len(ex_segs) : ex_segs[i].kind = "pin") =>
        ex_result = << ex_segs[FirstPin].lat,
                       ex_segs[FirstPin].long \o DigitsAfter(ex_segs, FirstPin + 1),
                       SrcPin >>

\* A viewport marker before the combined pin and a query parameter after it.
C7_Witness ==
    /\ pc = "extract"
    /\ Len(ex_segs) = 3
    /\ ex_segs[1].kind = "viewport"
    /\ ex_segs[2].kind = "pin"
    /\ ex_segs[3].kind = "query"
    /\ ex_result = <<Lat10, Long20, SrcPin>>

\* The number of calls of driver.get in the log of the current step.
GetsUpTo(i) == Cardinality({j \in 1..i : log[j].op = "get"})

\* What the log of a step of max_retries attempts may hold.
RetryPolicy ==
    /\ GetsUpTo(Len(log)) <= gc.max_retries
    /\ \A i \in 1..Len(log) :
          /\ log[i].op = "raise" =>
                IF GetsUpTo(i) < gc.max_retries
                THEN /\ i < Len(log)
                     /\ log[i + 1] = EvSleep(gc.retry_delay * Pow2(GetsUpTo(i) - 1))
                ELSE i = Len(log)
          /\ log[i].op = "sleep" =>
                /\ i > 1
                /\ log[i - 1].op \in {"get", "raise"}
                /\ log[i - 1].op = "get" =>
                      log[i].secs = IF gc.step = 1 THEN SettleUrl ELSE SettleSearch

\* C8: in each step at most max_retries navigations are made; the raise of
\* attempt a (from 0) is followed by a wait of retry_delay * 2^a when
\* another attempt follows and by nothing when it was the last; not-found is
\* returned from the search step only, so step 1 running out of attempts
\* leads to the search step, and the search step running out of attempts
\* returns not-found; a call makes at most 2 * max_retries navigations, and
\* every call returns.
C8_RetryPolicy ==
    /\ [](pc \in GcPcs \cup {"gc_return"} =>
            /\ RetryPolicy
            /\ gc.navs1 <= gc.max_retries
            /\ gc.navs2 <= gc.max_retries
            /\ gc.navs1 + gc.navs2 <= 2 * gc.max_retries
            /\ (pc = "gc_return" /\ gc.result = NotFound) => gc.step = 2
            /\ (pc = "gc_return" /\ gc.step = 2
                   /\ \A i \in 1..Len(log) : log[i].op # "loaded") =>
                  /\ gc.result = NotFound
                  /\ gc.navs2 = gc.max_retries)
    /\ <>(pc = "gc_return")

\* With max_retries = 4 and retry_delay = 5 all eight navigations of a call
\* have raised; the search step waited 5, 10 and 20 seconds and did not
\* wait after its last attempt.
C8_Witness ==
    /\ pc = "gc_return"
    /\ gc.max_retries = 4
    /\ gc.retry_delay = 5
    /\ gc.navs1 = 4
    /\ gc.navs2 = 4
    /\ gc.result = NotFound
    /\ Len(log) = 11
    /\ log[3] = EvSleep(5)
    /\ log[6] = EvSleep(10)
    /\ log[9] = EvSleep(20)
    /\ log[11] = EvRaise

\* C9: once step 1 has ended on a block page, it yields no result, makes no
\* further navigation (navs1 stays at the number it had) and is not resumed:
\* the call is at the test that leads to the search step, or in the search
\* step.
C9_BlockEndsStep1 ==
    /\ gc.blocked > 0 =>
          /\ gc.navs1 = gc.blocked
          /\ pc \in {"s2_if", "s2_for", "s2_get", "gc_return"}
          /\ pc = "s2_if" => gc.lat = None /\ gc.long = None
          /\ pc # "s2_if" => gc.step = 2
    /\ (gc.step = 1 /\ \E i \in 1..Len(log) :
                          log[i].op = "loaded" /\ Contains(log[i].url, Sorry)) =>
          /\ gc.blocked > 0
          /\ pc = "s2_if"

\* With four attempts allowed, the first navigation of step 1 ended on a
\* block page and the search step is navigating.
C9_Witness ==
    /\ pc = "s2_get"
    /\ gc.max_retries = 4
    /\ gc.blocked = 1
    /\ gc.navs1 = 1
    /\ gc.navs2 = 1

\* Some piece of the URL is of one of the kinds; the first such piece.
HasKind(kinds) == \E i \in 1..Len(ex_segs) : ex_segs[i].kind \in kinds
FirstKind(kinds) == Min({i \in 1..Len(ex_segs) : ex_segs[i].kind \in kinds})

\* The number a "lat" or "long" piece was written with (after !3d or !2d).
MarkerNumber(seg) == SubSeq(seg.text, Len(Lit3d) + 1, Len(seg.text))

\* The two numbers a "query" or "viewport" piece was written with: what
\* stands between "=" or "@" and the comma, and what stands after the comma.
CommaOf(seg) == CHOOSE i \in 1..Len(seg.text) : seg.text[i] = ","
OpenOf(seg) == CHOOSE i \in 1..Len(seg.text) : seg.text[i] \in {"=", "@"}
PairNumbers(seg) ==
    << SubSeq(seg.text, OpenOf(seg) + 1, CommaOf(seg) - 1),
       SubSeq(seg.text, CommaOf(seg) + 1, Len(seg.text)) >>

\* What the fixed order of the four families gives for the pieces of the
\* URL; a number at the end of a piece goes on through the digits after it.
FamilyOrder ==
    IF HasKind({"pin"})
    THEN LET i == FirstKind({"pin"})
         IN  <<ex_segs[i].lat, ex_segs[i].long \o DigitsAfter(ex_segs, i + 1), SrcPin>>
    ELSE IF HasKind({"lat"}) /\ HasKind({"long"})
    THEN LET i == FirstKind({"lat"})
             j == FirstKind({"long"})
         IN  << MarkerNumber(ex_segs[i]) \o DigitsAfter(ex_segs, i + 1),
                MarkerNumber(ex_segs[j]) \o DigitsAfter(ex_segs, j + 1), SrcPin >>
    ELSE IF HasKind({"query"})
    THEN LET i == FirstKind({"query"})
         IN  << PairNumbers(ex_segs[i])[1],
                PairNumbers(ex_segs[i])[2] \o DigitsAfter(ex_segs, i + 1), SrcQuery >>
    ELSE IF HasKind({"viewport"})
    THEN LET i == FirstKind({"viewport"})
         IN  << PairNumbers(ex_segs[i])[1],
                PairNumbers(ex_segs[i])[2] \o DigitsAfter(ex_segs, i + 1), SrcViewport >>
    ELSE NotFound

\* C11: the extractor returns the values and the source of the first of the
\* four families, in the order combined pin, separate markers (!3d and !2d
\* both present), query parameter, viewport, that the URL holds; a URL that
\* holds none of them gives (None, None, None).
C11_FirstFamilyWins ==
    pc = "extract" => ex_result = FamilyOrder

\* A viewport marker stands before a query parameter and a lone !3d marker:
\* the query parameter is returned.
C11_Witness ==
    /\ pc = "extract"
    /\ Len(ex_segs) = 3
    /\ ex_segs[1].kind = "viewport"
    /\ ex_segs[2].kind = "query"
    /\ ex_segs[3].kind = "lat"
    /\ ex_result = <<<<"5">>, <<"6">>, SrcQuery>>

\* v denotes a number: float(v) succeeds and its value is not a NaN.
IsNumeric(v) == ~IsError(float(v)) /\ float(v).kind # "nan"

\* The number v lies outside [-n, n].
Outside(v, n) == Below(float(v), n) \/ Above(float(v), n)

\* The cases in which a pair is to be rejected: a value that is not
\* numeric, lat outside [-90, 90], long outside [-180, 180], both equal to 0.
Rejected(lat, long) ==
    \/ ~IsNumeric(lat)
    \/ ~IsNumeric(long)
    \/ Outside(lat, 90)
    \/ Outside(long, 180)
    \/ IsZero(float(lat)) /\ IsZero(float(long))

\* C12: validate_coordinates returns invalid with at least one reason
\* exactly when lat or long is not numeric, lat is outside [-90, 90], long is
\* outside [-180, 180] or both are 0; in every other case (the ends of the
\* ranges, a pair with one 0) it returns valid with no reason.
C12_ValidatorVerdict ==
    pc = "validated" =>
        IF Rejected(val_lat, val_long)
        THEN val_result[1] = FALSE /\ val_result[2] # <<>>
        ELSE val_result = <<TRUE, <<>>>>

\* The same on the pairs without a NaN.
C12_VerdictWithoutNaN ==
    (pc = "validated" /\ val_lat # <<"n", "a", "n">> /\ val_long # <<"n", "a", "n">>) =>
        IF Rejected(val_lat, val_long)
        THEN val_result[1] = FALSE /\ val_result[2] # <<>>
        ELSE val_result = <<TRUE, <<>>>>

\* The pair get_coordinates returned fails validation.
FailsValidation == validate_coordinates(new_lat, new_long)[1] = FALSE

\* C13: a resolved pair that fails validation (out of range, or (0, 0)) is
\* handled like any other resolved pair: for a record with a coordinate
\* field it is written (lat, then long) and counted as updated when it
\* differs from the record's coordinate, and the batch goes on (to the periodic save or to
\* the next entity); when it does not differ nothing is written.  The one
\* other effect is that validation_warnings grows by exactly 1, whatever the
\* number of reasons; a pair that passes validation leaves it as it is.
C13_InvalidPairIsPersisted ==
    [][ /\ (pc = "gc_return" /\ gc.result # NotFound /\ NotInterrupted) =>
           /\ validation_warnings' =
                 IF FailsValidation THEN validation_warnings + 1
                 ELSE validation_warnings
           /\ <<failed_count, skipped_count>>' = <<failed_count, skipped_count>>
           /\ (FailsValidation /\ Changed /\ "latlong" \in DOMAIN Item) =>
                 /\ CoordOf(data'[idx])[1] = new_lat
                 /\ pc' = "set_long"
                 /\ exc' = "none"
           /\ (FailsValidation /\ ~Changed) =>
                 /\ data' = data
                 /\ updated_count' = updated_count
                 /\ pc' = "for"
        /\ (pc = "set_long" /\ NotInterrupted) =>
              /\ CoordOf(data'[idx]) = <<new_lat, new_long>>
              /\ Counters' = Counters
              /\ pc' = "count_update"
        /\ (pc = "count_update" /\ NotInterrupted) =>
              /\ data' = data
              /\ updated_count' = updated_count + 1
              /\ <<failed_count, skipped_count, validation_warnings>>' =
                    <<failed_count, skipped_count, validation_warnings>>
              /\ pc' \in {"for", "periodic_save"}
              /\ exc' = "none" ]_vars

\* main has ended: the pair 95, 200, which has two reasons against it, was
\* written to the first record and is in the JSON file; it counted as one
\* warning and one update, and the second entity was processed after it.
C13_Witness ==
    /\ pc = "done"
    /\ exc = "none"
    /\ ~interrupted
    /\ Len(data) = 2
    /\ CoordOf(data[1]) = <<<<"9", "5">>, <<"2", "0", "0">>>>
    /\ validate_coordinates(<<"9", "5">>, <<"2", "0", "0">>) =
          <<FALSE, <<"lat_range", "long_range">>>>
    /\ CoordOf(data[2]) = <<Lat10, Long20>>
    /\ jsonFile = Intact(data)
    /\ validation_warnings = 1
    /\ updated_count = 2

\* A record is whole: it is a record of the input as it was loaded, or its
\* lat and long are both present and both non-empty strings.
Whole(item) ==
    \/ item \in EntityKinds
    \/ /\ "latlong" \in DOMAIN item
       /\ DOMAIN item["latlong"] = {"lat", "long"}
       /\ \A k \in {"lat", "long"} :
             item["latlong"][k] # None /\ item["latlong"][k] # <<>>

\* C14: a coordinate the batch driver writes is a pair of non-empty strings
\* set together: but for the moment between the two assignments, every
\* record of the store, and every record of the JSON file, is as it was
\* loaded or holds a lat and a long that are both non-empty strings; and
\* nothing is written for an entity whose resolution returned not-found.
C14_PairIsSetTogether ==
    /\ [](pc # "set_long" =>
            /\ \A i \in 1..Len(data) : Whole(data[i])
            /\ \A i \in 1..Len(jsonFile.content) : Whole(jsonFile.content[i]))
    /\ [][(pc = "gc_return" /\ gc.result = NotFound) => data' = data]_vars

\* nav is the stored URL with exactly one trailing period removed, or the
\* stored URL itself when it does not end in a period.
OnePeriodRemoved(stored, nav) ==
    IF Len(stored) > 0 /\ stored[Len(stored)] = "."
    THEN nav \o <<".">> = stored
    ELSE nav = stored

\* The maps URLs stored in the records of a store.
StoredUrls(store) == [i \in 1..Len(store) |-> Get(store[i], "gmaps", None)]

\* C15: every navigation of the direct-URL step goes to the stored URL of
\* the entity with exactly one trailing period removed (a URL ending in two
\* periods keeps one), to the stored URL itself when it does not end in a
\* period; and the URL stored in a record is never modified.
C15_OnePeriodStripped ==
    [][ /\ (pc = "s1_for" /\ pc' = "s1_get") =>
              /\ log'[Len(log')].op = "get"
              /\ OnePeriodRemoved(Get(Item, "gmaps", <<>>), log'[Len(log')].url)
        /\ StoredUrls(data') = StoredUrls(data) ]_vars

\* The second navigation of step 1 for the stored URL "g.co/x.." is under
\* way: it goes to "g.co/x.", as the first did.
C15_Witness ==
    /\ pc = "s1_get"
    /\ gc.navs1 = 2
    /\ Get(Item, "gmaps", <<>>) = DotUrl
    /\ log[1] = EvGet(<<"g", ".", "c", "o", "/", "x", ".">>)
    /\ log[Len(log)] = EvGet(<<"g", ".", "c", "o", "/", "x", ".">>)

\* C16: with an input file that is missing or is not valid JSON, main
\* returns from where it started: no browser session is acquired, no
\* navigation is made, no entity is processed (the loop is not entered, no
\* counter moves), and no step writes the JSON file or the CSV file.
C16_BadInputNoSideEffects ==
    /\ [](input_file # "ok" =>
            /\ pc \in {"start", "done"}
            /\ driver = [acquired |-> 0, quit |-> 0]
            /\ gc = NoCall
            /\ log = <<>>
            /\ idx = 0
            /\ Counters = <<0, 0, 0, 0>>
            /\ json_writes = 0
            /\ csvFile = NoCsv
            /\ exc = "none")
    /\ [][input_file # "ok" => <<jsonFile, csvFile, data>>' = <<jsonFile, csvFile, data>>]_vars

\* main has returned on an input file that is not valid JSON; the command
\* line asked for the CSV file and for a forced update.
C16_Witness ==
    /\ pc = "done"
    /\ input_file = "malformed"
    /\ args.output_format = "csv"
    /\ args.force_update
    /\ driver.acquired = 0
    /\ csvFile = NoCsv

\* The query the search step is to use: the name, followed by a blank and
\* the context when a context is given and does not occur in the name.
QueryFor(nm, context) ==
    IF context # None /\ context # <<>> /\ ~Contains(nm, context)
    THEN nm \o <<" ">> \o context
    ELSE nm

\* The URL the browser ended on in the step that is now taken.
LandedOn == log'[Len(log')].url

\* C17: the direct-URL step is entered exactly when the URL is present and
\* longer than 5 characters, and it comes before the search step, which is
\* never left for it; a direct-URL navigation that yields coordinates
\* returns them at once, with no search navigation made, and one that
\* yields none leads to the search step; a call that returns from step 1
\* returns coordinates; the search step navigates to the search URL of the
\* name, followed by the context only when one is given that does not occur
\* in the name; the result is not-found exactly when no navigation of the
\* step the call ends in yielded coordinates.
C17_StepOrder ==
    /\ [][ /\ pc = "gc_entry" =>
                 IF gc.gmaps_url # None /\ Len(gc.gmaps_url) > 5
                 THEN pc' = "s1_for"
                 ELSE pc' = "s2_if" /\ gc' = gc
           /\ (pc = "s1_get" /\ pc' # "s1_for") =>
                 IF extract_coordinates_from_url(LandedOn) # NotFound
                       /\ ~Contains(LandedOn, Sorry)
                 THEN /\ pc' = "gc_return"
                      /\ gc'.result = extract_coordinates_from_url(LandedOn)
                      /\ gc'.navs2 = 0
                 ELSE pc' = "s2_if"
           /\ pc = "s2_if" => pc' = "s2_for" /\ gc'.step = 2
           /\ (pc = "s2_for" /\ pc' = "s2_get") =>
                 log'[Len(log')] =
                    EvGet(SearchPrefix \o quote(QueryFor(gc.name, gc.context)))
           /\ gc.step = 2 => gc'.step = 2 /\ gc'.navs1 = gc.navs1 ]_vars
    /\ [](/\ pc \in {"gc_entry", "s1_for", "s1_get"} => gc.step = 1 /\ gc.navs2 = 0
          /\ pc \in {"s2_for", "s2_get"} => gc.step = 2
          /\ gc.navs1 > 0 => Len(gc.gmaps_url) >= 5
          /\ pc = "gc_return" =>
                /\ gc.step = 1 => gc.result # NotFound /\ gc.navs2 = 0
                /\ gc.result = NotFound <=> NoYield)

\* The name "X NY" holds the context "NY": after a direct-URL navigation
\* that gave nothing, the search step navigates to the search URL of the
\* name alone, its blank percent-encoded.
C17_Witness ==
    /\ pc = "s2_get"
    /\ gc.name = NameXNY
    /\ gc.context = ContextNY
    /\ gc.navs1 = 1
    /\ gc.navs2 = 1
    /\ log = <<EvGet(SearchPrefix \o <<"X", "%", "2", "0", "N", "Y">>)>>

\* The last entry of the log is the URL the browser ended on.
HasLanded == Len(log) > 0 /\ log[Len(log)].op = "loaded"
LastUrl == log[Len(log)].url

\* C18: get_coordinates never returns coordinates taken from the URL of a
\* block page, in the direct-URL step and in the search step alike, even
\* when that URL matches a pattern of the extractor.
C18_NoResultFromBlockPage ==
    (pc = "gc_return" /\ gc.result # NotFound) =>
        /\ HasLanded
        /\ ~Contains(LastUrl, Sorry)

\* C18, as the program has it: the direct-URL step never returns
\* coordinates taken from the URL of a block page (a block page there gives
\* no result, whatever its URL holds); the search step returns what the
\* extractor finds in the URL the browser ended on, a block page included.
C18_BlockPageCountsInStep1Only ==
    /\ (pc = "gc_return" /\ gc.step = 1) =>
          /\ HasLanded
          /\ ~Contains(LastUrl, Sorry)
          /\ gc.result = extract_coordinates_from_url(LastUrl)
          /\ gc.result # NotFound
    /\ (pc = "s2_if" /\ gc.step = 1 /\ HasLanded /\ Contains(LastUrl, Sorry)) =>
          /\ gc.lat = None
          /\ gc.long = None
          /\ gc.result = NotFound
    /\ (pc = "gc_return" /\ gc.step = 2 /\ HasLanded) =>
          gc.result = extract_coordinates_from_url(LastUrl)

\* Both steps ended on the block page whose URL holds ?q=10.0,20.0: the
\* direct-URL step made nothing of it, the search step returns 10.0, 20.0.
C18_Witness ==
    /\ pc = "gc_return"
    /\ gc.step = 2
    /\ gc.blocked = 1
    /\ HasLanded
    /\ LastUrl = SorryUrl
    /\ gc.result = <<Lat10, Long20, SrcQuery>>

\* The entities the loop has visited so far: at the head of the loop those
\* before idx, inside an iteration the entity idx as well.
Visited == IF pc = "for" THEN idx - 1 ELSE idx

\* The records whose coordinate differs from the one that was loaded.
ChangedRecords ==
    Cardinality({i \in 1..Len(data) : CoordOf(data[i]) # CoordOf(loaded[i])})

\* What holds of the counters in every state of the loop: an entity counts
\* for at most one of updated, failed and skipped, and a warning is counted
\* only for an entity that counted for neither failed nor skipped.
CountersBounded ==
    /\ updated_count + failed_count + skipped_count <= Visited
    /\ validation_warnings + failed_count + skipped_count <= Visited
    /\ Visited <= Len(data)

\* C19: in every state of the batch loop no entity counts for more than one
\* of updated_count, failed_count and skipped_count, their sum does not
\* exceed the number of entities visited, validation_warnings does not
\* exceed the number of entities resolved, and updated_count is the number
\* of records whose coordinate was changed in memory.
C19_CountersInEveryState ==
    pc \in InTry => CountersBounded /\ updated_count = ChangedRecords

\* C19, as the program has it: the bounds hold in every state of the loop,
\* and updated_count is the number of records changed in memory in every
\* state but those between the writing of a record and the counting of it,
\* where it is one less (at most).  The entities are visited once each in
\* the order of the store; failed_count grows, by 1, exactly when
\* get_coordinates returned not-found; skipped_count grows by 1 and only
\* at the head of the loop, with no call made; validation_warnings grows by
\* 1 and only when get_coordinates returned a pair; updated_count grows by 1
\* and only after the record of the entity was written; only the record of
\* the entity the loop is at is written.
C19_CountersAtBoundaries ==
    /\ [](pc \in InTry =>
            /\ CountersBounded
            /\ pc \notin {"set_long", "count_update"} => updated_count = ChangedRecords
            /\ pc \in {"set_long", "count_update"} =>
                  ChangedRecords - updated_count \in {0, 1}
            /\ pc = "count_update" => ChangedRecords = updated_count + 1)
    /\ [][ /\ idx' \in {idx, idx + 1}
           /\ failed_count' # failed_count =>
                 /\ pc = "gc_return" /\ gc.result = NotFound
                 /\ failed_count' = failed_count + 1
                 /\ idx' = idx + 1
           /\ (pc = "gc_return" /\ gc.result = NotFound /\ NotInterrupted) =>
                 failed_count' = failed_count + 1
           /\ skipped_count' # skipped_count =>
                 /\ pc = "for" /\ pc' = "for"
                 /\ skipped_count' = skipped_count + 1
                 /\ idx' = idx + 1
           /\ validation_warnings' # validation_warnings =>
                 /\ pc = "gc_return" /\ gc.result # NotFound
                 /\ validation_warnings' = validation_warnings + 1
           /\ updated_count' # updated_count =>
                 /\ pc = "count_update"
                 /\ updated_count' = updated_count + 1
           /\ \A i \in 1..Len(data) : data'[i] # data[i] => i = idx ]_vars

\* The loop has visited three entities: one was updated, one failed, one
\* was skipped, and one record differs from what was loaded.
C19_Witness ==
    /\ pc = "for"
    /\ idx = 4
    /\ Len(data) = 3
    /\ updated_count = 1
    /\ failed_count = 1
    /\ skipped_count = 1
    /\ ChangedRecords = 1

\* The records of the store whose coordinate in memory is not the one in
\* the JSON file.
Unwritten ==
    Cardinality({i \in 1..Len(data) :
                    CoordOf(data[i]) # CoordOf(jsonFile.content[i])})

\* C20: at the head of the loop (an entity boundary) the JSON file is whole
\* and the number of updates made in memory and not yet written to it is
\* updated_count mod 5, so at most 4; after the final save the file holds
\* the in-memory store; and the file is never ahead of the memory: a
\* record in the file is as it is in memory or as it was loaded.
C20_UnsavedUpdatesBounded ==
    /\ pc = "for" =>
          /\ jsonFile.state = "intact"
          /\ Len(jsonFile.content) = Len(data)
          /\ Unwritten = updated_count % 5
          /\ Unwritten <= 4
    /\ (pc \in {"final_csv", "done"} /\ driver.quit = 1) => jsonFile = Intact(data)
    /\ jsonFile.state = "intact" =>
          \A i \in 1..Len(jsonFile.content) :
             jsonFile.content[i] \in {data[i], loaded[i]}

\* The loop is done with six entities, all updated: the file holds the
\* first five updates and lacks the sixth.
C20_Witness ==
    /\ pc = "for"
    /\ idx = 7
    /\ updated_count = 6
    /\ Unwritten = 1
    /\ CoordOf(jsonFile.content[6]) # CoordOf(data[6])
    /\ \A i \in 1..5 : jsonFile.content[i] = data[i]

====
